---- MODULE Spec2Model ----
(***************************************************************************)
(* SaaS Auto-Factory: the App component's factory state machine            *)
(* (src/components/Typewriter.tsx, lines 115-813), the Gemini service's    *)
(* agent functions, error classifier and JSON clean-up helper              *)
(* (src/unnamed/part_000) and the state type (src/types.ts).                *)
(*                                                                         *)
(* JavaScript strings that the code inspects character by character are    *)
(* sequences of one-character strings; free text that the code only        *)
(* stores is an opaque string.  A JavaScript object is a record that may   *)
(* lack fields (a missing field reads as undefined); null is the empty      *)
(* sequence and a non-null value v is <<v>>.                                *)
(***************************************************************************)
EXTENDS Integers, Sequences, FiniteSets, TLC

VARIABLES
    apiKeySet,            \* process.env.API_KEY is set (fixed for a page's lifetime)
    state,                \* useState<FactoryState>
    apiKeyError,          \* useState apiKeyError: null or its type
    isResearching,        \* useState isResearching
    loadingOptimization,  \* useState loadingOptimization
    loadingUserFlow,      \* useState loadingUserFlow
    loadingTechSpec,      \* useState loadingTechSpec
    pending,              \* awaited service calls in flight, per handler
    crashed,              \* the React tree was unmounted by a render error
    freshRun,             \* no user action since the last confirmed restart
    lastStep,             \* what the last step was, and whether it showed an alert
    callBound,            \* how many calls the environment lets be in flight at once
    text,                 \* the string handed to the string helper
    nPieces,              \* how many pieces text was assembled from
    phase,                \* string helpers: "idle", "input", "cleaned", "classified"
    cleaned,              \* result of cleanJsonString(text)
    thrown,               \* error thrown by the service's handleApiError
    response,             \* what generateContent came back with, for an agent on its own
    agent,                \* the agent function called on its own
    settlement            \* how that agent's promise settled

vars == <<apiKeySet, state, apiKeyError, isResearching, loadingOptimization,
          loadingUserFlow, loadingTechSpec, pending, crashed, freshRun,
          lastStep, callBound, text, nPieces, phase, cleaned, thrown, response, agent,
          settlement>>

appVars == <<apiKeySet, state, apiKeyError, isResearching, loadingOptimization,
             loadingUserFlow, loadingTechSpec, pending, crashed, freshRun, lastStep,
             callBound>>

agentVars == <<response, agent, settlement>>

strVars == <<text, nPieces, phase, cleaned, thrown, response, agent, settlement>>

-----------------------------------------------------------------------------
(* Bounds *)

\* most service calls in flight at once
MaxInFlight == 2

\* most service calls in flight at once where the product actions overlap
MaxConcurrent == 4

\* most pieces an error message is assembled from
MaxMsgPieces == 2

\* most pieces a model response text is assembled from
MaxTextPieces == 4

-----------------------------------------------------------------------------
(* JavaScript values *)

NULL == <<>>
Some(v) == <<v>>
UNDEF == "undefined"

\* obj.f, undefined when the object has no such field
Get(obj, f) == IF f \in DOMAIN obj THEN obj[f] ELSE UNDEF

\* { ...a, ...b }; spreading null contributes nothing
Spread(a, b) == [f \in (DOMAIN a) \cup (DOMAIN b) |-> IF f \in DOMAIN b THEN b[f] ELSE a[f]]

\* the fields of a nullable object, for { ...x! } where x may be null
Fields(opt) == IF opt = NULL THEN [f \in {} |-> UNDEF] ELSE opt[1]

\* JavaScript truthiness of a string-or-undefined value
Truthy(v) == v # UNDEF /\ v # ""

-----------------------------------------------------------------------------
(* Character strings *)

UpperCase == <<"A","B","C","D","E","F","G","H","I","J","K","L","M",
               "N","O","P","Q","R","S","T","U","V","W","X","Y","Z">>
LowerCase == <<"a","b","c","d","e","f","g","h","i","j","k","l","m",
               "n","o","p","q","r","s","t","u","v","w","x","y","z">>

LowerChar(c) ==
    IF \E i \in 1..26 : UpperCase[i] = c
    THEN LowerCase[CHOOSE i \in 1..26 : UpperCase[i] = c]
    ELSE c

\* String.prototype.toLowerCase
toLowerCase(s) == [i \in 1..Len(s) |-> LowerChar(s[i])]

\* s.startsWith(sub, at), at 0-based
StartsWithAt(s, sub, at) ==
    /\ at + Len(sub) <= Len(s)
    /\ \A j \in 1..Len(sub) : s[at + j] = sub[j]

\* String.prototype.includes
includes(s, sub) == \E at \in 0..(Len(s) - Len(sub)) : StartsWithAt(s, sub, at)

\* String.prototype.indexOf for one character: 0-based, -1 when absent
indexOf(s, c) ==
    IF \E i \in 1..Len(s) : s[i] = c
    THEN (CHOOSE i \in 1..Len(s) : s[i] = c /\ \A j \in 1..(i - 1) : s[j] # c) - 1
    ELSE -1

\* String.prototype.lastIndexOf for one character: 0-based, -1 when absent
lastIndexOf(s, c) ==
    IF \E i \in 1..Len(s) : s[i] = c
    THEN (CHOOSE i \in 1..Len(s) : s[i] = c /\ \A j \in (i + 1)..Len(s) : s[j] # c) - 1
    ELSE -1

\* String.prototype.substring(from, to), 0-based, to exclusive
substring(s, from, to) == SubSeq(s, from + 1, to)

\* the characters the regular expression class \s matches, among those used
WhiteSpace == {" ", "\n", "\t"}

\* index (0-based) of the first character at or after `at` that is not \s
SkipSpace(s, at) ==
    LET rest == {i \in at..(Len(s) - 1) : s[i + 1] \notin WhiteSpace}
    IN  IF rest # {} THEN CHOOSE i \in rest : \A j \in rest : i <= j
        ELSE IF at < Len(s) THEN Len(s) ELSE at

\* s.replace(/<marker>\s*/g, ''): leftmost non-overlapping matches, each the
\* marker and the longest run of white space after it, scanning from `at`
RECURSIVE ReplaceFrom(_, _, _)
ReplaceFrom(s, marker, at) ==
    LET matches == {i \in at..(Len(s) - Len(marker)) : StartsWithAt(s, marker, i)}
    IN  IF matches = {} THEN SubSeq(s, at + 1, Len(s))
        ELSE LET m == CHOOSE i \in matches : \A j \in matches : i <= j
             IN  SubSeq(s, at + 1, m)
                   \o ReplaceFrom(s, marker, SkipSpace(s, m + Len(marker)))

\* the backtick character (the parser accepts none inside a string literal)
BackTick == "BACKTICK"

FenceJson == <<BackTick, BackTick, BackTick, "j", "s", "o", "n">>
Fence == <<BackTick, BackTick, BackTick>>

\* a slip: only the fence that names json is removed
StripFences_JsonOnly(t) == ReplaceFrom(t, FenceJson, 0)

\* text.replace(/<fence>json\s*/g, '').replace(/<fence>\s*/g, ''), <fence> being
\* three backticks
StripFences(t) == ReplaceFrom(ReplaceFrom(t, FenceJson, 0), Fence, 0)

\* const firstOpen = clean.indexOf('{')
FirstOpen(clean) == indexOf(clean, "{")

\* a slip: the first '}' is taken for the last
LastClose_First(clean) == indexOf(clean, "}")

\* const lastClose = clean.lastIndexOf('}')
LastClose(clean) == lastIndexOf(clean, "}")

cleanJsonString(t) ==
    IF t = <<>> THEN <<"{","}">>
    ELSE LET clean == StripFences(t)
             firstOpen == FirstOpen(clean)
             lastClose == LastClose(clean)
         IN  IF firstOpen # -1 /\ lastClose # -1 /\ lastClose > firstOpen
             THEN substring(clean, firstOpen, lastClose + 1)
             ELSE clean

-----------------------------------------------------------------------------
(* The service's error classifier *)

INVALID_API_KEY == <<"I","N","V","A","L","I","D","_","A","P","I","_","K","E","Y">>
QUOTA_EXCEEDED == <<"Q","U","O","T","A","_","E","X","C","E","E","D","E","D">>
MISSING_API_KEY == <<"M","I","S","S","I","N","G","_","A","P","I","_","K","E","Y">>

\* new Error(message)
Error(message) == [name |-> "Error", message |-> message]

\* Error.prototype.toString: the name alone when the message is empty
ErrorToString(e) ==
    IF e.message = <<>> THEN <<"E","r","r","o","r">>
    ELSE <<"E","r","r","o","r",":"," ">> \o e.message

\* (error?.message || error?.toString() || '').toLowerCase()
ErrorMsg(e) == toLowerCase(IF e.message # <<>> THEN e.message ELSE ErrorToString(e))

AuthMarkers == { <<"4","0","1">>, <<"4","0","3">>, <<"a","p","i"," ","k","e","y">>,
                 <<"u","n","a","u","t","h","e","n","t","i","c","a","t","e","d">> }
QuotaMarkers == { <<"4","2","9">>, <<"q","u","o","t","a">> }

\* a slip: the quota markers are looked for before the auth markers
handleApiError_QuotaFirst(error) ==
    LET msg == ErrorMsg(error)
    IN  IF \E m \in QuotaMarkers : includes(msg, m) THEN Error(QUOTA_EXCEEDED)
        ELSE IF \E m \in AuthMarkers : includes(msg, m) THEN Error(INVALID_API_KEY)
        ELSE IF msg = MISSING_API_KEY THEN Error(MISSING_API_KEY)
        ELSE error

\* the value handleApiError throws; it never returns
handleApiError(error) ==
    LET msg == ErrorMsg(error)
    IN  IF \E m \in AuthMarkers : includes(msg, m) THEN Error(INVALID_API_KEY)
        ELSE IF \E m \in QuotaMarkers : includes(msg, m) THEN Error(QUOTA_EXCEEDED)
        ELSE IF msg = MISSING_API_KEY THEN Error(MISSING_API_KEY)
        ELSE error

-----------------------------------------------------------------------------
(* src/types.ts *)

IDLE == "IDLE"
THINKING == "THINKING"
COMPLETED == "COMPLETED"
FAILED == "FAILED"
SKIPPED == "SKIPPED"

AgentStatus == {IDLE, THINKING, COMPLETED, FAILED, SKIPPED}

Stages == {"radar", "product", "tech", "dev", "qa"}

INITIAL_STATE ==
    [ currentStage |-> 0,
      idea    |-> [name |-> "", targetUser |-> "", painPoint |-> "", description |-> ""],
      radar   |-> [status |-> IDLE, result |-> NULL],
      product |-> [status |-> IDLE, result |-> NULL],
      tech    |-> [status |-> IDLE, result |-> NULL],
      dev     |-> [status |-> IDLE, result |-> NULL],
      qa      |-> [status |-> IDLE,
                   metrics |-> [users |-> 0, retention |-> "", revenue |-> "", feedback |-> ""],
                   result |-> NULL] ]

-----------------------------------------------------------------------------
(* The external model: what one generateContent call can come back with *)

J_PROCEED == <<"{","\"","d","e","c","i","s","i","o","n","\"",":","\"","P","R","O","C","E","E","D","\"","}">>
J_KILL == <<"{","\"","d","e","c","i","s","i","o","n","\"",":","\"","K","I","L","L","\"","}">>
J_PIVOT == <<"{","\"","d","e","c","i","s","i","o","n","\"",":","\"","P","I","V","O","T","\"","}">>
J_IDEA ==
    <<"{","\"","n","a","m","e","\"",":","\"","a","\"",",","\"","t","a","r","g","e","t","U","s","e","r","\"",":","\"","a","\"",",","\"">>
    \o <<"p","a","i","n","P","o","i","n","t","\"",":","\"","\"",",","\"","d","e","s","c","r","i","p","t","i","o","n","\"",":","\"","\"","}">>
J_EMPTY == <<"{","}">>
PROSE == <<"S","u","r","e">>
E_AUTH == <<"4","0","3"," ","F","o","r","b","i","d","d","e","n">>
E_QUOTA == <<"Q","u","o","t","a"," ","e","x","c","e","e","d","e","d">>
E_NET == <<"F","a","i","l","e","d"," ","t","o"," ","f","e","t","c","h">>
E_SYNTAX == <<"U","n","e","x","p","e","c","t","e","d"," ","t","o","k","e","n">>
AT_POSITION == <<" ","a","t"," ","p","o","s","i","t","i","o","n"," ">>

\* an offset whose digits the classifier takes for an HTTP status
BadOffset == 403

\* a response that opens an object and goes wrong at offset n
BadJsonAt(n) == <<"{">> \o [i \in 1..(n - 1) |-> " "] \o <<"x">>

\* a response wrapped in a markdown json fence
Fenced(t) == FenceJson \o <<"\n">> \o t \o <<"\n">> \o Fence

\* the errors generateContent rejects with
ApiErrors == {Error(E_AUTH), Error(E_QUOTA), Error(E_NET)}

Ok(t) == [ok |-> TRUE, text |-> t]
Failed(e) == [ok |-> FALSE, error |-> e]

\* response.text of the JSON agents (<<>>: no text), and of the markdown agents
RadarResponses == {Ok(t) : t \in {J_PROCEED, Fenced(J_KILL), PROSE, BadJsonAt(BadOffset)}}
                    \cup {Failed(e) : e \in ApiErrors}
QaResponses == {Ok(t) : t \in {J_PIVOT, PROSE, BadJsonAt(BadOffset)}}
                 \cup {Failed(e) : e \in ApiErrors}
IdeaResponses == {Ok(t) : t \in {Fenced(J_IDEA)}} \cup {Failed(e) : e \in ApiErrors}
PrdResponses == {Ok(t) : t \in {"markdown"}} \cup {Failed(e) : e \in ApiErrors}
TextResponses == {Ok("markdown")} \cup {Failed(e) : e \in ApiErrors}

\* the decimal digits of n
Digit(d) == <<"0","1","2","3","4","5","6","7","8","9">>[d + 1]
RECURSIVE Decimal(_)
Decimal(n) == IF n < 10 THEN <<Digit(n)>> ELSE Decimal(n \div 10) \o <<Digit(n % 10)>>

\* where JSON.parse gives up on a text that is no JSON: at the first character,
\* or, after an opening brace, at the first character that is not white space
ErrorOffset(t) ==
    IF t # <<>> /\ t[1] = "{" THEN SkipSpace(t, 1) ELSE 0

\* the message of the SyntaxError is the engine's: some engines name the
\* offset of the offending character, others do not
SyntaxErrorStyles == {"plain", "position"}

SyntaxError(t, style) ==
    Error(IF style = "position" THEN E_SYNTAX \o AT_POSITION \o Decimal(ErrorOffset(t))
          ELSE E_SYNTAX)

\* JSON.parse on the texts above: the parsed object, or the SyntaxError thrown
JSONparse(t, style) ==
    CASE t = J_PROCEED -> [ok |-> TRUE, value |-> [decision |-> "PROCEED"]]
      [] t = J_KILL    -> [ok |-> TRUE, value |-> [decision |-> "KILL"]]
      [] t = J_PIVOT   -> [ok |-> TRUE, value |-> [decision |-> "PIVOT"]]
      [] t = J_IDEA    -> [ok |-> TRUE, value |-> [name |-> "a", targetUser |-> "a",
                                                   painPoint |-> "", description |-> ""]]
      [] t = J_EMPTY   -> [ok |-> TRUE, value |-> [f \in {} |-> UNDEF]]
      [] OTHER         -> [ok |-> FALSE, error |-> SyntaxError(t, style)]

-----------------------------------------------------------------------------
(* The service's agent functions: how the promise settles for a response *)

Resolved(v) == [settled |-> "resolved", value |-> v]
Rejected(e) == [settled |-> "rejected", error |-> e]

\* getAI(): throws MISSING_API_KEY inside the agent's try when no key is set
Call(keySet, resp) == IF keySet THEN resp ELSE Failed(Error(MISSING_API_KEY))

CriticalMessages == {INVALID_API_KEY, MISSING_API_KEY, QUOTA_EXCEEDED}

RadarFallback == [score |-> 0, decision |-> "KILL", reasoning |-> "Analysis failed"]
GateFallback == [decision |-> "ITERATE", analysis |-> "Error analyzing metrics"]
IdeaFallback ==
    [name |-> "Manual Input Required", targetUser |-> "Define your audience",
     painPoint |-> "Define the problem",
     description |-> "The AI could not generate a valid format. Please enter your idea manually."]

\* the catch block shared by IdeaRadarAgent and DecisionGateAgent
CatchWithFallback(error, fallback) ==
    LET e == handleApiError(error)
    IN  IF e.message \in CriticalMessages THEN Rejected(e) ELSE Resolved(fallback)

\* the try block shared by IdeaRadarAgent and DecisionGateAgent
JsonAgent(keySet, resp, style, fallback) ==
    LET r == Call(keySet, resp)
    IN  IF ~r.ok THEN CatchWithFallback(r.error, fallback)
        ELSE LET p == JSONparse(cleanJsonString(IF r.text = <<>> THEN J_EMPTY ELSE r.text),
                                style)
             IN  IF p.ok THEN Resolved(p.value) ELSE CatchWithFallback(p.error, fallback)

IdeaRadarAgent(keySet, resp, style) == JsonAgent(keySet, resp, style, RadarFallback)

DecisionGateAgent(keySet, resp, style) == JsonAgent(keySet, resp, style, GateFallback)

\* a slip: a response that cannot be parsed goes to the outer catch
GenerateIdeaFromTrends_NoInnerCatch(keySet, resp, style) ==
    LET r == Call(keySet, resp)
    IN  IF ~r.ok THEN Rejected(handleApiError(r.error))
        ELSE LET p == JSONparse(cleanJsonString(IF r.text = <<>> THEN J_EMPTY ELSE r.text),
                                style)
             IN  IF p.ok THEN Resolved(p.value) ELSE Rejected(handleApiError(p.error))

GenerateIdeaFromTrends(keySet, resp, style) ==
    LET r == Call(keySet, resp)
    IN  IF ~r.ok THEN Rejected(handleApiError(r.error))
        ELSE LET p == JSONparse(cleanJsonString(IF r.text = <<>> THEN J_EMPTY ELSE r.text),
                                style)
             IN  IF p.ok THEN Resolved(p.value) ELSE Resolved(IdeaFallback)

\* ProductDesignerAgent, ProductMVPReviewer, ProductTechSpecGenerator,
\* TechLeadAgent, DevAgent: return response.text
TextAgent(keySet, resp) ==
    LET r == Call(keySet, resp)
    IN  IF r.ok THEN Resolved(r.text) ELSE Rejected(handleApiError(r.error))

\* ProductUserFlowDesigner: response.text || '', fences stripped from its ends
ProductUserFlowDesigner(keySet, resp) ==
    LET r == Call(keySet, resp)
    IN  IF r.ok THEN Resolved(IF Truthy(r.text) THEN r.text ELSE "")
        ELSE Rejected(handleApiError(r.error))

\* every way each awaited call can settle, by whether the API key is set
RadarSettlements ==
    [k \in BOOLEAN |-> {IdeaRadarAgent(k, r, y) : r \in RadarResponses, y \in SyntaxErrorStyles}]
GateSettlements ==
    [k \in BOOLEAN |-> {DecisionGateAgent(k, r, y) : r \in QaResponses, y \in SyntaxErrorStyles}]
IdeaSettlements ==
    [k \in BOOLEAN |->
        {GenerateIdeaFromTrends(k, r, y) : r \in IdeaResponses, y \in SyntaxErrorStyles}]
PrdSettlements == [k \in BOOLEAN |-> {TextAgent(k, r) : r \in PrdResponses}]
TextSettlements == [k \in BOOLEAN |-> {TextAgent(k, r) : r \in TextResponses}]
FlowSettlements == [k \in BOOLEAN |-> {ProductUserFlowDesigner(k, r) : r \in TextResponses}]

-----------------------------------------------------------------------------
(* The App component *)

Calls == {"research", "radar", "product", "optimize", "userFlow", "techSpec",
          "tech", "dev", "qa"}

InFlight(p) == p["research"] + p["radar"] + p["product"] + p["optimize"] + p["userFlow"]
                 + p["techSpec"] + p["tech"] + p["dev"] + p["qa"]

\* the bound on calls in flight leaves room for one more
CanCall == InFlight(pending) < callBound

Issue(c) == [pending EXCEPT ![c] = @ + 1]
Settle(c) == [pending EXCEPT ![c] = @ - 1]

\* a slip: the decision gate is highlighted one stage early
IsActive_OffByOne(stage, currentStage) ==
    CASE stage = "radar"   -> currentStage = 1
      [] stage = "product" -> currentStage = 2
      [] stage = "tech"    -> currentStage = 3
      [] stage = "dev"     -> currentStage = 4
      [] stage = "qa"      -> currentStage >= 4

\* sidebar: which SectionHeader is highlighted
IsActive(stage, currentStage) ==
    CASE stage = "radar"   -> currentStage = 1
      [] stage = "product" -> currentStage = 2
      [] stage = "tech"    -> currentStage = 3
      [] stage = "dev"     -> currentStage = 4
      [] stage = "qa"      -> currentStage >= 5

\* the error screen replaces the whole interface while apiKeyError is set, and
\* nothing is on screen once a render error has unmounted the tree
UIVisible == apiKeyError = NULL /\ ~crashed

\* a slip: the stage 0 card stays usable at every stage
FormEnabled_Always == UIVisible

\* the stage 0 card takes no pointer events once currentStage > 0 (the class
\* pointer-events-none); the form is operated by pointer
FormEnabled == UIVisible /\ state.currentStage = 0

\* rendering throws: the product card gives MarkdownBlock, and so Typewriter,
\* an undefined prd, whose length is read
RenderThrows(s) ==
    /\ s.currentStage >= 2
    /\ s.product.result # NULL
    /\ Get(s.product.result[1], "prd") = UNDEF

ApiKeyError(type) == Some([type |-> type])

\* a slip: a missing key is reported as an invalid one
ReportedError_MissingAsInvalid(err) ==
    IF err.message = INVALID_API_KEY THEN ApiKeyError("INVALID")
    ELSE IF err.message = QUOTA_EXCEEDED THEN ApiKeyError("QUOTA")
    ELSE IF err.message = MISSING_API_KEY THEN ApiKeyError("INVALID")
    ELSE apiKeyError

\* App.handleApiError: the apiKeyError it sets, or the one in place when it alerts
ReportedError(err) ==
    IF err.message = INVALID_API_KEY THEN ApiKeyError("INVALID")
    ELSE IF err.message = QUOTA_EXCEEDED THEN ApiKeyError("QUOTA")
    ELSE IF err.message = MISSING_API_KEY THEN ApiKeyError("MISSING")
    ELSE apiKeyError

\* App.handleApiError: whether it shows the alert
Alerts(err) == err.message \notin CriticalMessages

\* a step is a user's action (mount and reload included), or the continuation
\* of an awaited call: its then branch, or its catch branch, which may alert
UserStep == [kind |-> "user", alert |-> FALSE]
SettleStep(o) ==
    IF o.settled = "resolved" THEN [kind |-> "resolved", alert |-> FALSE]
    ELSE [kind |-> "rejected", alert |-> Alerts(o.error)]

\* the state updates of one handler step take effect together; a component
\* that has been unmounted ignores them; the render that follows may throw
Commit(s, e) ==
    /\ state' = IF crashed THEN state ELSE s
    /\ apiKeyError' = IF crashed THEN apiKeyError ELSE e
    /\ crashed' = (crashed \/ (e = NULL /\ RenderThrows(s)))

Flag(current, new) == IF crashed THEN current ELSE new

-----------------------------------------------------------------------------
(* Stage 0: the idea form *)

\* what the user types into each field of the form
TypedIdea == [name |-> {"a"}, targetUser |-> {"a"}, painPoint |-> {}, description |-> {}]

onChangeIdea(f, v) ==
    /\ FormEnabled /\ ~isResearching
    /\ Get(state.idea, f) # v
    /\ Commit([state EXCEPT !.idea = Spread(@, f :> v)], apiKeyError)
    /\ freshRun' = FALSE
    /\ lastStep' = UserStep
    /\ UNCHANGED <<apiKeySet, callBound, isResearching, loadingOptimization, loadingUserFlow,
                   loadingTechSpec, pending, strVars>>

handleAutoResearch ==
    /\ FormEnabled /\ ~isResearching /\ CanCall
    /\ isResearching' = TRUE
    /\ pending' = Issue("research")
    /\ freshRun' = FALSE
    /\ lastStep' = UserStep
    /\ UNCHANGED <<apiKeySet, callBound, state, apiKeyError, crashed, loadingOptimization,
                   loadingUserFlow, loadingTechSpec, strVars>>

AutoResearchSettled(o) ==
    /\ pending["research"] > 0
    /\ lastStep' = SettleStep(o)
    /\ IF o.settled = "resolved"
       THEN /\ Commit([state EXCEPT !.idea = o.value], apiKeyError)
       ELSE /\ Commit(state, ReportedError(o.error))
    /\ isResearching' = Flag(isResearching, FALSE)
    /\ pending' = Settle("research")
    /\ UNCHANGED <<apiKeySet, callBound, freshRun, loadingOptimization, loadingUserFlow,
                   loadingTechSpec, strVars>>

handleIdeaSubmit ==
    /\ FormEnabled /\ ~isResearching
    /\ Truthy(Get(state.idea, "name")) /\ Truthy(Get(state.idea, "targetUser"))
    /\ CanCall
    /\ Commit([state EXCEPT !.currentStage = 1, !.radar.status = THINKING], apiKeyError)
    /\ pending' = Issue("radar")
    /\ freshRun' = FALSE
    /\ lastStep' = UserStep
    /\ UNCHANGED <<apiKeySet, callBound, isResearching, loadingOptimization, loadingUserFlow,
                   loadingTechSpec, strVars>>

\* a slip: a rejected radar call is issued again instead of being given up
IdeaSubmitSettled_Retry(o) ==
    /\ pending["radar"] > 0
    /\ lastStep' = SettleStep(o)
    /\ IF o.settled = "resolved"
       THEN /\ Commit([state EXCEPT !.radar = [status |-> COMPLETED,
                                               result |-> Some(o.value)]], apiKeyError)
            /\ pending' = Settle("radar")
       ELSE /\ Commit(state, apiKeyError)
            /\ pending' = pending
    /\ UNCHANGED <<apiKeySet, callBound, freshRun, isResearching, loadingOptimization,
                   loadingUserFlow, loadingTechSpec, strVars>>

IdeaSubmitSettled(o) ==
    /\ pending["radar"] > 0
    /\ lastStep' = SettleStep(o)
    /\ IF o.settled = "resolved"
       THEN /\ Commit([state EXCEPT !.radar = [status |-> COMPLETED,
                                                   result |-> Some(o.value)]], apiKeyError)
       ELSE /\ Commit([state EXCEPT !.radar.status = FAILED], ReportedError(o.error))
    /\ pending' = Settle("radar")
    /\ UNCHANGED <<apiKeySet, callBound, freshRun, isResearching, loadingOptimization,
                   loadingUserFlow, loadingTechSpec, strVars>>

-----------------------------------------------------------------------------
(* Stages 1 and 2: radar result, product designer and its three sub-actions *)

handleProceedToProduct ==
    /\ UIVisible /\ state.currentStage = 1
    /\ state.radar.result # NULL
    /\ Get(state.radar.result[1], "decision") = "PROCEED"
    /\ CanCall
    /\ Commit([state EXCEPT !.currentStage = 2, !.product.status = THINKING], apiKeyError)
    /\ pending' = Issue("product")
    /\ freshRun' = FALSE
    /\ lastStep' = UserStep
    /\ UNCHANGED <<apiKeySet, callBound, isResearching, loadingOptimization, loadingUserFlow,
                   loadingTechSpec, strVars>>

ProceedToProductSettled(o) ==
    /\ pending["product"] > 0
    /\ lastStep' = SettleStep(o)
    /\ IF o.settled = "resolved"
       THEN /\ Commit([state EXCEPT !.product =
                             [status |-> COMPLETED,
                              result |-> Some([prd |-> IF Truthy(o.value) THEN o.value ELSE "",
                                               features |-> <<>>])]], apiKeyError)
       ELSE /\ Commit([state EXCEPT !.product.status = FAILED], ReportedError(o.error))
    /\ pending' = Settle("product")
    /\ UNCHANGED <<apiKeySet, callBound, freshRun, isResearching, loadingOptimization,
                   loadingUserFlow, loadingTechSpec, strVars>>

\* the product card with its action bar is on screen
ProductCardShown == UIVisible /\ state.currentStage >= 2 /\ state.product.result # NULL

\* state.product.result?.prd is truthy
HasPrd == state.product.result # NULL /\ Truthy(Get(state.product.result[1], "prd"))

\* a slip: the new result holds the new field only
WithProductField_Alone(s, field, value) ==
    [s EXCEPT !.product.result = Some(field :> value)]

\* setState(prev => ... result: { ...prev.product.result!, [field]: value })
WithProductField(s, field, value) ==
    [s EXCEPT !.product.result = Some(Spread(Fields(@), field :> value))]

\* a slip: the button is not disabled while its call is in flight
OptimizeDisabled_NotWhileLoading == Truthy(Get(state.product.result[1], "optimizations"))

\* disabled={loadingOptimization || !!state.product.result.optimizations}
OptimizeDisabled ==
    loadingOptimization \/ Truthy(Get(state.product.result[1], "optimizations"))

handleOptimizeProduct ==
    /\ ProductCardShown /\ ~OptimizeDisabled
    /\ freshRun' = FALSE
    /\ lastStep' = UserStep
    /\ IF HasPrd
       THEN /\ CanCall
            /\ loadingOptimization' = TRUE
            /\ pending' = Issue("optimize")
       ELSE UNCHANGED <<loadingOptimization, pending>>
    /\ UNCHANGED <<apiKeySet, callBound, state, apiKeyError, crashed, isResearching, loadingUserFlow,
                   loadingTechSpec, strVars>>

OptimizeProductSettled(o) ==
    /\ pending["optimize"] > 0
    /\ lastStep' = SettleStep(o)
    /\ IF o.settled = "resolved"
       THEN /\ Commit(WithProductField(state, "optimizations", o.value), apiKeyError)
       ELSE /\ Commit(state, ReportedError(o.error))
    /\ loadingOptimization' = Flag(loadingOptimization, FALSE)
    /\ pending' = Settle("optimize")
    /\ UNCHANGED <<apiKeySet, callBound, freshRun, isResearching, loadingUserFlow, loadingTechSpec,
                   strVars>>

\* disabled={loadingUserFlow || !!state.product.result.userFlow}
UserFlowDisabled == loadingUserFlow \/ Truthy(Get(state.product.result[1], "userFlow"))

handleGenerateUserFlow ==
    /\ ProductCardShown /\ ~UserFlowDisabled
    /\ freshRun' = FALSE
    /\ lastStep' = UserStep
    /\ IF HasPrd
       THEN /\ CanCall
            /\ loadingUserFlow' = TRUE
            /\ pending' = Issue("userFlow")
       ELSE UNCHANGED <<loadingUserFlow, pending>>
    /\ UNCHANGED <<apiKeySet, callBound, state, apiKeyError, crashed, isResearching,
                   loadingOptimization, loadingTechSpec, strVars>>

GenerateUserFlowSettled(o) ==
    /\ pending["userFlow"] > 0
    /\ lastStep' = SettleStep(o)
    /\ IF o.settled = "resolved"
       THEN /\ Commit(WithProductField(state, "userFlow", o.value), apiKeyError)
       ELSE /\ Commit(state, ReportedError(o.error))
    /\ loadingUserFlow' = Flag(loadingUserFlow, FALSE)
    /\ pending' = Settle("userFlow")
    /\ UNCHANGED <<apiKeySet, callBound, freshRun, isResearching, loadingOptimization,
                   loadingTechSpec, strVars>>

\* disabled={loadingTechSpec || !!state.product.result.techSpec}
TechSpecDisabled == loadingTechSpec \/ Truthy(Get(state.product.result[1], "techSpec"))

handleGenerateTechSpec ==
    /\ ProductCardShown /\ ~TechSpecDisabled
    /\ freshRun' = FALSE
    /\ lastStep' = UserStep
    /\ IF HasPrd
       THEN /\ CanCall
            /\ loadingTechSpec' = TRUE
            /\ pending' = Issue("techSpec")
       ELSE UNCHANGED <<loadingTechSpec, pending>>
    /\ UNCHANGED <<apiKeySet, callBound, state, apiKeyError, crashed, isResearching,
                   loadingOptimization, loadingUserFlow, strVars>>

GenerateTechSpecSettled(o) ==
    /\ pending["techSpec"] > 0
    /\ lastStep' = SettleStep(o)
    /\ IF o.settled = "resolved"
       THEN /\ Commit(WithProductField(state, "techSpec", o.value), apiKeyError)
       ELSE /\ Commit(state, ReportedError(o.error))
    /\ loadingTechSpec' = Flag(loadingTechSpec, FALSE)
    /\ pending' = Settle("techSpec")
    /\ UNCHANGED <<apiKeySet, callBound, freshRun, isResearching, loadingOptimization,
                   loadingUserFlow, strVars>>

-----------------------------------------------------------------------------
(* Stages 3 to 5: tech lead, dev agent, decision gate *)

handleProceedToTech ==
    /\ ProductCardShown /\ state.currentStage = 2
    /\ CanCall
    /\ Commit([state EXCEPT !.currentStage = 3, !.tech.status = THINKING], apiKeyError)
    /\ pending' = Issue("tech")
    /\ freshRun' = FALSE
    /\ lastStep' = UserStep
    /\ UNCHANGED <<apiKeySet, callBound, isResearching, loadingOptimization, loadingUserFlow,
                   loadingTechSpec, strVars>>

ProceedToTechSettled(o) ==
    /\ pending["tech"] > 0
    /\ lastStep' = SettleStep(o)
    /\ IF o.settled = "resolved"
       THEN /\ Commit([state EXCEPT !.tech =
                             [status |-> COMPLETED,
                              result |-> Some([stack |-> "Toh Framework", schema |-> "",
                                               apiSpec |-> "",
                                               fullOutput |-> IF Truthy(o.value) THEN o.value
                                                              ELSE ""])]], apiKeyError)
       ELSE /\ Commit([state EXCEPT !.tech.status = FAILED], ReportedError(o.error))
    /\ pending' = Settle("tech")
    /\ UNCHANGED <<apiKeySet, callBound, freshRun, isResearching, loadingOptimization,
                   loadingUserFlow, loadingTechSpec, strVars>>

\* a slip: the button is shown without a tech result
ProceedToDevShown_NoResult == UIVisible /\ state.currentStage = 3

\* the Generate Boilerplate Code button is on screen
ProceedToDevShown == UIVisible /\ state.currentStage = 3 /\ state.tech.result # NULL

handleProceedToDev ==
    /\ ProceedToDevShown
    /\ CanCall
    /\ Commit([state EXCEPT !.currentStage = 4, !.dev.status = THINKING], apiKeyError)
    /\ pending' = Issue("dev")
    /\ freshRun' = FALSE
    /\ lastStep' = UserStep
    /\ UNCHANGED <<apiKeySet, callBound, isResearching, loadingOptimization, loadingUserFlow,
                   loadingTechSpec, strVars>>

ProceedToDevSettled(o) ==
    /\ pending["dev"] > 0
    /\ lastStep' = SettleStep(o)
    /\ IF o.settled = "resolved"
       THEN /\ Commit([state EXCEPT !.dev =
                             [status |-> COMPLETED,
                              result |-> Some([codeStructure |-> IF Truthy(o.value)
                                                                 THEN o.value ELSE "",
                                               instructions |-> ""])]], apiKeyError)
       ELSE /\ Commit([state EXCEPT !.dev.status = FAILED], ReportedError(o.error))
    /\ pending' = Settle("dev")
    /\ UNCHANGED <<apiKeySet, callBound, freshRun, isResearching, loadingOptimization,
                   loadingUserFlow, loadingTechSpec, strVars>>

\* the Simulate Launch button: setState(p => ({...p, currentStage: 5}))
SimulateLaunch ==
    /\ UIVisible /\ state.currentStage = 4
    /\ state.dev.result # NULL
    /\ Commit([state EXCEPT !.currentStage = 5], apiKeyError)
    /\ freshRun' = FALSE
    /\ lastStep' = UserStep
    /\ UNCHANGED <<apiKeySet, callBound, isResearching, loadingOptimization, loadingUserFlow,
                   loadingTechSpec, pending, strVars>>

\* what the user types into each field of the metrics form
TypedMetrics == [users |-> {0, 10}, retention |-> {}, revenue |-> {}, feedback |-> {}]

onChangeMetrics(f, v) ==
    /\ UIVisible /\ state.currentStage >= 5
    /\ state.qa.metrics[f] # v
    /\ Commit([state EXCEPT !.qa.metrics[f] = v], apiKeyError)
    /\ freshRun' = FALSE
    /\ lastStep' = UserStep
    /\ UNCHANGED <<apiKeySet, callBound, isResearching, loadingOptimization, loadingUserFlow,
                   loadingTechSpec, pending, strVars>>

handleEvaluateMetrics ==
    /\ UIVisible /\ state.currentStage >= 5
    /\ state.qa.status \in {IDLE, COMPLETED}
    /\ CanCall
    /\ Commit([state EXCEPT !.qa.status = THINKING], apiKeyError)
    /\ pending' = Issue("qa")
    /\ freshRun' = FALSE
    /\ lastStep' = UserStep
    /\ UNCHANGED <<apiKeySet, callBound, isResearching, loadingOptimization, loadingUserFlow,
                   loadingTechSpec, strVars>>

\* a slip: the catch branch drops the result of the earlier evaluation
EvaluateMetricsSettled_ClearsResult(o) ==
    /\ pending["qa"] > 0
    /\ lastStep' = SettleStep(o)
    /\ IF o.settled = "resolved"
       THEN /\ Commit([state EXCEPT !.qa.status = COMPLETED,
                                        !.qa.result = Some(o.value)], apiKeyError)
       ELSE /\ Commit([state EXCEPT !.qa.status = FAILED, !.qa.result = NULL],
                      ReportedError(o.error))
    /\ pending' = Settle("qa")
    /\ UNCHANGED <<apiKeySet, callBound, freshRun, isResearching, loadingOptimization,
                   loadingUserFlow, loadingTechSpec, strVars>>

\* a slip: the then branch marks the stage completed without storing the result
EvaluateMetricsSettled_NoResult(o) ==
    /\ pending["qa"] > 0
    /\ lastStep' = SettleStep(o)
    /\ IF o.settled = "resolved"
       THEN /\ Commit([state EXCEPT !.qa.status = COMPLETED], apiKeyError)
       ELSE /\ Commit([state EXCEPT !.qa.status = FAILED], ReportedError(o.error))
    /\ pending' = Settle("qa")
    /\ UNCHANGED <<apiKeySet, callBound, freshRun, isResearching, loadingOptimization,
                   loadingUserFlow, loadingTechSpec, strVars>>

EvaluateMetricsSettled(o) ==
    /\ pending["qa"] > 0
    /\ lastStep' = SettleStep(o)
    /\ IF o.settled = "resolved"
       THEN /\ Commit([state EXCEPT !.qa.status = COMPLETED,
                                        !.qa.result = Some(o.value)], apiKeyError)
       ELSE /\ Commit([state EXCEPT !.qa.status = FAILED], ReportedError(o.error))
    /\ pending' = Settle("qa")
    /\ UNCHANGED <<apiKeySet, callBound, freshRun, isResearching, loadingOptimization,
                   loadingUserFlow, loadingTechSpec, strVars>>

-----------------------------------------------------------------------------
(* Restart and reload *)

\* a slip: the idea typed before is kept across the restart
handleRestart_KeepsIdea(confirmed) ==
    /\ UIVisible
    /\ IF confirmed
       THEN /\ Commit([INITIAL_STATE EXCEPT !.idea = state.idea], NULL)
            /\ freshRun' = TRUE
       ELSE /\ UNCHANGED <<state, apiKeyError, crashed, freshRun>>
    /\ lastStep' = UserStep
    /\ UNCHANGED <<apiKeySet, callBound, isResearching, loadingOptimization, loadingUserFlow,
                   loadingTechSpec, pending, strVars>>

\* handleRestart; `confirmed` is the answer to window.confirm
handleRestart(confirmed) ==
    /\ UIVisible
    /\ IF confirmed
       THEN /\ Commit(INITIAL_STATE, NULL)
            /\ freshRun' = TRUE
       ELSE /\ UNCHANGED <<state, apiKeyError, crashed, freshRun>>
    /\ lastStep' = UserStep
    /\ UNCHANGED <<apiKeySet, callBound, isResearching, loadingOptimization, loadingUserFlow,
                   loadingTechSpec, pending, strVars>>

\* the mount effect: apiKeyError is MISSING from the start when no key is set
Mounted(keySet) ==
    /\ apiKeySet = keySet
    /\ state = INITIAL_STATE
    /\ apiKeyError = IF keySet THEN NULL ELSE ApiKeyError("MISSING")
    /\ isResearching = FALSE
    /\ loadingOptimization = FALSE
    /\ loadingUserFlow = FALSE
    /\ loadingTechSpec = FALSE
    /\ pending = [c \in Calls |-> 0]
    /\ crashed = FALSE
    /\ freshRun = FALSE
    /\ lastStep = UserStep

StringsIdle ==
    /\ text = <<>>
    /\ nPieces = 0
    /\ phase = "idle"
    /\ cleaned = <<>>
    /\ thrown = Error(<<>>)
    /\ response = Ok(<<>>)
    /\ agent = "none"
    /\ settlement = Resolved(<<>>)

Init == (\E k \in BOOLEAN : Mounted(k)) /\ StringsIdle /\ callBound = MaxInFlight

\* the error screen's Retry Connection button: window.location.reload() loads
\* the page anew, and the calls of the old page are gone with it
Reload ==
    /\ apiKeyError # NULL /\ ~crashed
    /\ state' = INITIAL_STATE
    /\ apiKeyError' = IF apiKeySet THEN NULL ELSE ApiKeyError("MISSING")
    /\ isResearching' = FALSE
    /\ loadingOptimization' = FALSE
    /\ loadingUserFlow' = FALSE
    /\ loadingTechSpec' = FALSE
    /\ pending' = [c \in Calls |-> 0]
    /\ crashed' = FALSE
    /\ freshRun' = FALSE
    /\ lastStep' = UserStep
    /\ UNCHANGED <<apiKeySet, callBound, strVars>>

Next ==
    \/ \E f \in DOMAIN TypedIdea : \E v \in TypedIdea[f] : onChangeIdea(f, v)
    \/ handleAutoResearch
    \/ \E o \in IdeaSettlements[apiKeySet] : AutoResearchSettled(o)
    \/ handleIdeaSubmit
    \/ \E o \in RadarSettlements[apiKeySet] : IdeaSubmitSettled(o)
    \/ handleProceedToProduct
    \/ \E o \in PrdSettlements[apiKeySet] : ProceedToProductSettled(o)
    \/ handleOptimizeProduct
    \/ \E o \in TextSettlements[apiKeySet] : OptimizeProductSettled(o)
    \/ handleGenerateUserFlow
    \/ \E o \in FlowSettlements[apiKeySet] : GenerateUserFlowSettled(o)
    \/ handleGenerateTechSpec
    \/ \E o \in TextSettlements[apiKeySet] : GenerateTechSpecSettled(o)
    \/ handleProceedToTech
    \/ \E o \in TextSettlements[apiKeySet] : ProceedToTechSettled(o)
    \/ handleProceedToDev
    \/ \E o \in TextSettlements[apiKeySet] : ProceedToDevSettled(o)
    \/ SimulateLaunch
    \/ \E f \in DOMAIN TypedMetrics : \E v \in TypedMetrics[f] : onChangeMetrics(f, v)
    \/ handleEvaluateMetrics
    \/ \E o \in GateSettlements[apiKeySet] : EvaluateMetricsSettled(o)
    \/ \E confirmed \in BOOLEAN : handleRestart(confirmed)
    \/ Reload

Spec == Init /\ [][Next]_vars

\* every awaited call terminates: its continuation runs sooner or later
CallsTerminate ==
    /\ WF_vars(\E o \in IdeaSettlements[apiKeySet] : AutoResearchSettled(o))
    /\ WF_vars(\E o \in RadarSettlements[apiKeySet] : IdeaSubmitSettled(o))
    /\ WF_vars(\E o \in PrdSettlements[apiKeySet] : ProceedToProductSettled(o))
    /\ WF_vars(\E o \in TextSettlements[apiKeySet] : OptimizeProductSettled(o))
    /\ WF_vars(\E o \in FlowSettlements[apiKeySet] : GenerateUserFlowSettled(o))
    /\ WF_vars(\E o \in TextSettlements[apiKeySet] : GenerateTechSpecSettled(o))
    /\ WF_vars(\E o \in TextSettlements[apiKeySet] : ProceedToTechSettled(o))
    /\ WF_vars(\E o \in TextSettlements[apiKeySet] : ProceedToDevSettled(o))
    /\ WF_vars(\E o \in GateSettlements[apiKeySet] : EvaluateMetricsSettled(o))

SpecLive == Spec /\ CallsTerminate

-----------------------------------------------------------------------------
(* One run of the pipeline up to the tech lead, with room for the product    *)
(* actions and the tech lead call to be in flight together                   *)

InitConcurrent == Mounted(TRUE) /\ StringsIdle /\ callBound = MaxConcurrent

NextConcurrent ==
    \/ \E f \in DOMAIN TypedIdea : \E v \in TypedIdea[f] : onChangeIdea(f, v)
    \/ handleIdeaSubmit
    \/ \E o \in RadarSettlements[apiKeySet] : IdeaSubmitSettled(o)
    \/ handleProceedToProduct
    \/ \E o \in PrdSettlements[apiKeySet] : ProceedToProductSettled(o)
    \/ handleOptimizeProduct
    \/ \E o \in TextSettlements[apiKeySet] : OptimizeProductSettled(o)
    \/ handleGenerateUserFlow
    \/ \E o \in FlowSettlements[apiKeySet] : GenerateUserFlowSettled(o)
    \/ handleGenerateTechSpec
    \/ \E o \in TextSettlements[apiKeySet] : GenerateTechSpecSettled(o)
    \/ handleProceedToTech
    \/ \E o \in TextSettlements[apiKeySet] : ProceedToTechSettled(o)
    \/ \E confirmed \in BOOLEAN : handleRestart(confirmed)

SpecConcurrent == InitConcurrent /\ [][NextConcurrent]_vars

-----------------------------------------------------------------------------
(* The string helpers on their own: a string is assembled piece by piece and *)
(* handed to the helper                                                      *)

\* what error messages are assembled from
MsgPieces ==
    { <<"4","0","1">>, <<"4","0">>, <<"1">>, <<"4","0","3">>, <<"4","2","9">>,
      <<"A","P","I"," ","k","e","y">>, <<"a","p","i">>, <<" ">>, <<"K","e","y">>,
      <<"U","N","A","U","T","H","E","N","T","I","C","A","T","E","D">>,
      <<"Q","u","o","t","a">>, <<"q","u","o">>, <<"t","a">>, <<"x">>,
      MISSING_API_KEY }

\* what response texts are assembled from
TextPieces ==
    { FenceJson, Fence, <<BackTick>>, <<"{">>, <<"}">>, <<" ">>, <<"\n">>, <<"a">>,
      <<"j","s","o","n">> }

StartInput ==
    /\ phase = "idle"
    /\ phase' = "input"
    /\ UNCHANGED <<appVars, text, nPieces, cleaned, thrown, agentVars>>

AppendMsgPiece(p) ==
    /\ phase = "input" /\ nPieces < MaxMsgPieces
    /\ text' = text \o p
    /\ nPieces' = nPieces + 1
    /\ UNCHANGED <<appVars, phase, cleaned, thrown, agentVars>>

\* catch (error) { handleApiError(error) } with error = new Error(text)
Classify ==
    /\ phase = "input"
    /\ thrown' = handleApiError(Error(text))
    /\ phase' = "classified"
    /\ UNCHANGED <<appVars, text, nPieces, cleaned, agentVars>>

NextClassify ==
    \/ StartInput
    \/ \E p \in MsgPieces : AppendMsgPiece(p)
    \/ Classify

SpecClassify == Init /\ [][NextClassify]_vars

AppendTextPiece(p) ==
    /\ phase = "input" /\ nPieces < MaxTextPieces
    /\ text' = text \o p
    /\ nPieces' = nPieces + 1
    /\ UNCHANGED <<appVars, phase, cleaned, thrown, agentVars>>

\* cleanJsonString(text)
Clean ==
    /\ phase = "input"
    /\ cleaned' = cleanJsonString(text)
    /\ phase' = "cleaned"
    /\ UNCHANGED <<appVars, text, nPieces, thrown, agentVars>>

NextClean ==
    \/ StartInput
    \/ \E p \in TextPieces : AppendTextPiece(p)
    \/ Clean

SpecClean == Init /\ [][NextClean]_vars

-----------------------------------------------------------------------------
(* The agent functions on their own: generateContent comes back with a text  *)
(* or fails with an error, the agent settles, and the caller's continuation  *)
(* runs                                                                      *)

AgentNames == {"IdeaRadarAgent", "DecisionGateAgent", "GenerateIdeaFromTrends",
               "ProductDesignerAgent", "ProductUserFlowDesigner"}

\* response texts tried on each agent
SampleTexts ==
    [ IdeaRadarAgent          |-> {J_PROCEED, Fenced(J_KILL), J_EMPTY, <<>>, PROSE,
                                   BadJsonAt(BadOffset)},
      DecisionGateAgent       |-> {J_PIVOT, Fenced(J_PIVOT), <<>>, PROSE, BadJsonAt(BadOffset)},
      GenerateIdeaFromTrends  |-> {J_IDEA, Fenced(J_IDEA), <<>>, PROSE, BadJsonAt(BadOffset)},
      ProductDesignerAgent    |-> {"markdown"},
      ProductUserFlowDesigner |-> {"markdown"} ]

RunAgent(a, keySet, resp, style) ==
    CASE a = "IdeaRadarAgent"          -> IdeaRadarAgent(keySet, resp, style)
      [] a = "DecisionGateAgent"       -> DecisionGateAgent(keySet, resp, style)
      [] a = "GenerateIdeaFromTrends"  -> GenerateIdeaFromTrends(keySet, resp, style)
      [] a = "ProductDesignerAgent"    -> TextAgent(keySet, resp)
      [] a = "ProductUserFlowDesigner" -> ProductUserFlowDesigner(keySet, resp)

\* generateContent resolves with a response whose text is t
ModelResponds(a, t) ==
    /\ phase = "input" /\ nPieces = 0
    /\ agent' = a
    /\ response' = Ok(t)
    /\ phase' = "responded"
    /\ UNCHANGED <<appVars, text, nPieces, cleaned, thrown, settlement>>

\* generateContent rejects with new Error(text)
ModelFails(a) ==
    /\ phase = "input"
    /\ agent' = a
    /\ response' = Failed(Error(text))
    /\ phase' = "responded"
    /\ UNCHANGED <<appVars, text, nPieces, cleaned, thrown, settlement>>

\* the agent function runs to its return or throw
AgentSettles(style) ==
    /\ phase = "responded"
    /\ settlement' = RunAgent(agent, apiKeySet, response, style)
    /\ phase' = "settled"
    /\ UNCHANGED <<appVars, text, nPieces, cleaned, thrown, response, agent>>

\* handleAutoResearch continues with what GenerateIdeaFromTrends settled with
ResearchArrives ==
    /\ phase = "settled" /\ agent = "GenerateIdeaFromTrends"
    /\ AutoResearchSettled(settlement)

\* catch (err) { handleApiError(err) } in the caller, for a rejected agent
ErrorReported ==
    /\ phase = "settled" /\ settlement.settled = "rejected"
    /\ Commit(state, ReportedError(settlement.error))
    /\ lastStep' = SettleStep(settlement)
    /\ phase' = "reported"
    /\ UNCHANGED <<apiKeySet, callBound, isResearching, loadingOptimization, loadingUserFlow,
                   loadingTechSpec, pending, freshRun, text, nPieces, cleaned, thrown,
                   response, agent, settlement>>

NextAgents ==
    \/ StartInput
    \/ \E p \in MsgPieces : AppendMsgPiece(p)
    \/ \E a \in AgentNames : \E t \in SampleTexts[a] : ModelResponds(a, t)
    \/ \E a \in AgentNames : ModelFails(a)
    \/ \E y \in SyntaxErrorStyles : AgentSettles(y)
    \/ handleAutoResearch
    \/ ResearchArrives
    \/ ErrorReported

SpecAgents == Init /\ [][NextAgents]_vars

-----------------------------------------------------------------------------
(* Properties *)

ActiveStages == {st \in Stages : IsActive(st, state.currentStage)}
ThinkingStages == {st \in Stages : state[st].status = THINKING}

\* the stage entered by advancing to currentStage k, which is also the name
\* of the call its handler awaits
StageName == <<"radar", "product", "tech", "dev", "qa">>

\* C1 as stated: in every reachable state, the initial state and the state
\* right after a restart included, exactly one of the five stages is active.
C1_ExactlyOneActive == Cardinality(ActiveStages) = 1

\* C1 amended: at most one stage is active in every reachable state; exactly
\* one is active whenever currentStage >= 1, and none while currentStage = 0
\* (the initial state and the state right after a restart).
C1_AtMostOneActive ==
    /\ Cardinality(ActiveStages) <= 1
    /\ state.currentStage >= 1 => Cardinality(ActiveStages) = 1
    /\ state.currentStage = 0 => ActiveStages = {}

C1_Witness == state.currentStage = 5 /\ ActiveStages = {"qa"}

\* C2: at most one stage has status THINKING at any time.
C2_AtMostOneThinking == Cardinality(ThinkingStages) <= 1

\* C3 as stated: at no time are two calls to the external model in flight.
C3_OneCallAtATime == InFlight(pending) <= 1

\* C3 amended: at no time are two calls of the same product sub-action
\* (optimize, user flow, tech spec) or two auto-research calls in flight;
\* calls of different kinds may be in flight together.
C3_OneCallPerGuardedKind ==
    \A c \in {"research", "optimize", "userFlow", "techSpec"} : pending[c] <= 1

C3_Witness == pending["optimize"] = 1 /\ pending["userFlow"] = 1

\* C4 as stated: every increase of currentStage is the effect of a call that
\* completed successfully.
C4_AdvanceOnlyAfterSuccess ==
    [][state'.currentStage > state.currentStage => lastStep'.kind = "resolved"]_vars

\* C4 amended: currentStage is increased, by exactly 1, only by the user's
\* action that starts the next stage: in that step no call completes, stage k
\* being left (k >= 1) holds a result, and the call of the stage entered is
\* issued in the same step and its status set to THINKING (none for the step
\* to 5); the completion of a call, successful or not, never changes it.
C4_AdvanceByUserAction ==
    [][ /\ state'.currentStage > state.currentStage =>
            LET k == state.currentStage
            IN  /\ state'.currentStage = k + 1
                /\ lastStep'.kind = "user"
                /\ k >= 1 => state[StageName[k]].result # NULL
                /\ IF k + 1 <= 4
                   THEN /\ pending' = [pending EXCEPT ![StageName[k + 1]] = @ + 1]
                        /\ state'[StageName[k + 1]].status = THINKING
                   ELSE pending' = pending
        /\ lastStep'.kind \in {"resolved", "rejected"} =>
            state'.currentStage = state.currentStage ]_vars

C4_Witness ==
    /\ state.currentStage = 1 /\ state.radar.status = THINKING
    /\ state.radar.result = NULL /\ pending["radar"] = 1

\* a page reload builds the component anew
ReloadStep ==
    /\ apiKeyError # NULL
    /\ state' = INITIAL_STATE
    /\ pending' = [c \in Calls |-> 0]

C6_Restart ==
    [][ /\ handleRestart(TRUE) => state' = INITIAL_STATE /\ apiKeyError' = NULL
        /\ handleRestart(FALSE) => UNCHANGED <<state, apiKeyError>> ]_vars

C6_Witness ==
    /\ freshRun /\ lastStep.kind = "user"
    /\ state = INITIAL_STATE /\ apiKeyError = NULL
    /\ InFlight(pending) > 0

\* C7: no retries: a step issues at most one request; the step in which a
\* call settles, resolved or rejected, takes that call out of flight and
\* issues none; a rejection is reported, by the error screen or by an alert.
C7_NoRetries ==
    [][ /\ InFlight(pending') <= InFlight(pending) + 1
        /\ lastStep'.kind \in {"resolved", "rejected"} =>
             /\ InFlight(pending') = InFlight(pending) - 1
             /\ \A c \in Calls : pending'[c] <= pending[c]
        /\ (lastStep'.kind = "rejected" /\ ~crashed) =>
             (lastStep'.alert \/ apiKeyError' # NULL) ]_vars

C7_Witness ==
    /\ lastStep.kind = "rejected" /\ lastStep.alert
    /\ state.tech.status = FAILED /\ pending["tech"] = 0

\* C8: handleApiError classifies by the lower-cased message: an auth marker
\* gives INVALID_API_KEY; otherwise a quota marker gives QUOTA_EXCEEDED;
\* otherwise the original error is rethrown unchanged; with both an auth and
\* a quota marker present the result is INVALID_API_KEY.
C8_Classifier ==
    phase = "classified" =>
        LET lower == toLowerCase(text)
            auth  == \E m \in AuthMarkers : includes(lower, m)
            quota == \E m \in QuotaMarkers : includes(lower, m)
        IN  /\ auth => thrown = Error(INVALID_API_KEY)
            /\ (~auth /\ quota) => thrown = Error(QUOTA_EXCEEDED)
            /\ (~auth /\ ~quota) => thrown = Error(text)

C8_Witness ==
    /\ phase = "classified"
    /\ includes(toLowerCase(text), <<"4","0","1">>)
    /\ includes(toLowerCase(text), <<"q","u","o","t","a">>)
    /\ thrown = Error(INVALID_API_KEY)

\* C9: cleanJsonString gives {} for the empty text; otherwise, clean being
\* the text without its fence markers, when clean has a { and a } after the
\* first {, the result is clean from its first { through its last }; in every
\* other case it is clean unchanged.
C9_CleanJson ==
    phase = "cleaned" =>
        IF text = <<>> THEN cleaned = <<"{", "}">>
        ELSE LET clean  == StripFences(text)
                 opens  == {i \in 1..Len(clean) : clean[i] = "{"}
                 closes == {i \in 1..Len(clean) : clean[i] = "}"}
             IN  IF \E i \in opens : \E j \in closes :
                        (\A h \in opens : i <= h) /\ i < j
                 THEN LET first == CHOOSE i \in opens : \A j \in opens : i <= j
                          last  == CHOOSE i \in closes : \A j \in closes : j <= i
                      IN  /\ cleaned = SubSeq(clean, first, last)
                          /\ Head(cleaned) = "{"
                          /\ cleaned[Len(cleaned)] = "}"
                 ELSE cleaned = clean

C9_Witness ==
    /\ phase = "cleaned"
    /\ StripFences(text) # text
    /\ cleaned # StripFences(text)
    /\ Head(cleaned) = "{"

\* C10: the response of a call started before a confirmed restart never
\* changes the factory state of the new run: after a restart the state stays
\* INITIAL_STATE until the user acts again.
C10_PreviousRunDiscarded == freshRun => state = INITIAL_STATE

\* C11: whenever currentStage >= k + 1 for k in 1..4 (radar, product, tech,
\* dev), stage k has status COMPLETED and a non-null result.
C11_PreviousResultStored ==
    \A k \in 1..4 :
        state.currentStage >= k + 1 =>
            /\ state[StageName[k]].status = COMPLETED
            /\ state[StageName[k]].result # NULL

\* C12: in every reachable state with currentStage >= 2 the radar result has
\* decision PROCEED.
C12_KillNeverProceeds ==
    state.currentStage >= 2 =>
        /\ state.radar.result # NULL
        /\ Get(state.radar.result[1], "decision") = "PROCEED"

\* C13: whenever the radar validation has failed (radar.status = FAILED) the
\* idea form can be edited and submitted again, without a restart.
C13_RetryAfterFailure ==
    (state.radar.status = FAILED /\ ~crashed) => FormEnabled

\* C17: when a stage's agent call rejects, the step changes, in the factory
\* state, only that stage's status, to FAILED: its result, currentStage, the
\* idea, the metrics and every other stage are left unchanged.
C17_RejectionFrame ==
    [][ \A st \in Stages :
          (lastStep'.kind = "rejected" /\ pending'[st] < pending[st] /\ ~crashed) =>
              state' = [state EXCEPT ![st].status = FAILED] ]_vars

C17_Witness ==
    /\ lastStep.kind = "rejected" /\ ~crashed
    /\ state.qa.status = FAILED /\ state.qa.result # NULL
    /\ state.currentStage = 5 /\ state.dev.status = COMPLETED

\* C19 as stated: for each stage, the result is non-null if and only if the
\* status is COMPLETED.
C19_ResultIffCompleted ==
    \A st \in Stages : (state[st].result # NULL) <=> (state[st].status = COMPLETED)

\* C19 amended: a stage that has completed holds a result: for each stage,
\* status COMPLETED implies a non-null result. The converse does not hold: a
\* stage run again keeps its earlier result while THINKING and when FAILED.
C19_CompletedHoldsResult ==
    \A st \in Stages : state[st].status = COMPLETED => state[st].result # NULL

C19_Witness ==
    /\ state.qa.status = THINKING /\ state.qa.result # NULL
    /\ state.dev.status = COMPLETED /\ state.dev.result # NULL

AgentDone == phase \in {"settled", "reported"}

\* the response of the call on its own is a text that JSON.parse rejects
Unparseable ==
    /\ apiKeySet /\ response.ok
    /\ \A y \in SyntaxErrorStyles :
         ~JSONparse(cleanJsonString(IF response.text = <<>> THEN J_EMPTY
                                    ELSE response.text), y).ok

\* C14: IdeaRadarAgent and DecisionGateAgent reject only with INVALID_API_KEY,
\* MISSING_API_KEY or QUOTA_EXCEEDED; a failed call whose error is none of
\* these, and a response that cannot be parsed as JSON, resolve with the fixed
\* fallback (decision KILL for the radar, ITERATE for the decision gate).
C14_FallbackForOtherFailures ==
    (AgentDone /\ agent \in {"IdeaRadarAgent", "DecisionGateAgent"}) =>
        LET fallback == IF agent = "IdeaRadarAgent" THEN RadarFallback ELSE GateFallback
        IN  /\ settlement.settled = "rejected" =>
                settlement.error.message \in CriticalMessages
            /\ (apiKeySet /\ ~response.ok
                  /\ handleApiError(response.error).message \notin CriticalMessages) =>
                settlement = Resolved(fallback)
            /\ Unparseable => settlement = Resolved(fallback)

\* C15: GenerateIdeaFromTrends resolves with the fixed placeholder idea when
\* the response cannot be parsed as JSON; it rejects only when the call itself
\* fails, and then with the classified error; the continuation of
\* handleAutoResearch, resolved or rejected, leaves currentStage and every
\* stage status unchanged.
C15_ResearchPlaceholder ==
    /\ []((AgentDone /\ agent = "GenerateIdeaFromTrends") =>
            /\ Unparseable => settlement = Resolved(IdeaFallback)
            /\ settlement.settled = "rejected" <=> (~apiKeySet \/ ~response.ok)
            /\ settlement.settled = "rejected" =>
                 settlement.error = handleApiError(Call(apiKeySet, response).error))
    /\ [][ pending'["research"] < pending["research"] =>
             /\ state'.currentStage = state.currentStage
             /\ \A st \in Stages : state'[st].status = state[st].status ]_vars

C15_Witness ==
    /\ phase = "settled" /\ agent = "GenerateIdeaFromTrends"
    /\ response = Ok(BadJsonAt(BadOffset))
    /\ settlement = Resolved(IdeaFallback)
    /\ lastStep.kind = "resolved" /\ state.idea = IdeaFallback
    /\ state.currentStage = 0 /\ ~isResearching

\* C16: when API_KEY is not set every agent function rejects with an error
\* whose message is exactly MISSING_API_KEY, the classifier keeping that
\* message, and the App's handler then sets apiKeyError to type MISSING.
C16_MissingApiKey ==
    /\ handleApiError(Error(MISSING_API_KEY)) = Error(MISSING_API_KEY)
    /\ (~apiKeySet /\ AgentDone) => settlement = Rejected(Error(MISSING_API_KEY))
    /\ (~apiKeySet /\ phase = "reported") =>
          /\ apiKeyError = ApiKeyError("MISSING")
          /\ ~lastStep.alert

C16_Witness ==
    /\ ~apiKeySet /\ phase = "reported" /\ agent = "ProductUserFlowDesigner"
    /\ response = Ok("markdown")
    /\ settlement = Rejected(Error(MISSING_API_KEY))
    /\ lastStep.kind = "rejected" /\ apiKeyError = ApiKeyError("MISSING")

\* C18: provided every agent call terminates, a stage that is THINKING
\* eventually has another status: no stage remains THINKING forever.
C18_ThinkingEnds ==
    \A st \in Stages : (state[st].status = THINKING) ~> (state[st].status # THINKING)

\* the field of the product result each product action writes
ProductField == [optimize |-> "optimizations", userFlow |-> "userFlow",
                 techSpec |-> "techSpec"]

\* C20: in whatever order the responses of the three product actions arrive,
\* alone or with the tech lead call in flight, a successful response writes
\* its own field of the product result and leaves prd, the other fields, the
\* product status and the rest of the factory state as they were.
C20_OwnFieldOnly ==
    [][ \A c \in DOMAIN ProductField :
          (pending'[c] < pending[c] /\ lastStep'.kind = "resolved" /\ ~crashed) =>
              LET old == Fields(state.product.result)
                  new == Fields(state'.product.result)
              IN  /\ state'.product.result # NULL
                  /\ DOMAIN new = DOMAIN old \cup {ProductField[c]}
                  /\ Truthy(new[ProductField[c]])
                  /\ \A f \in DOMAIN old \ {ProductField[c]} : new[f] = old[f]
                  /\ state'.product.status = state.product.status
                  /\ [state' EXCEPT !.product.result = state.product.result] = state
      ]_vars

C20_Witness ==
    /\ lastStep.kind = "resolved" /\ ~crashed
    /\ state.product.status = COMPLETED
    /\ Truthy(Get(Fields(state.product.result), "prd"))
    /\ Truthy(Get(Fields(state.product.result), "optimizations"))
    /\ pending["userFlow"] = 1 /\ pending["techSpec"] = 1 /\ pending["tech"] = 1
    /\ pending["optimize"] = 0

\* C21: for every input, the output of cleanJsonString contains no three
\* consecutive backticks, whether the input wrote the fence with json after
\* it or plain.
C21_NoFenceLeft == phase = "cleaned" => ~includes(cleaned, Fence)

C21_Witness ==
    /\ phase = "cleaned"
    /\ StartsWithAt(text, FenceJson, 0)
    /\ Len(text) > Len(FenceJson) + Len(Fence)
    /\ StartsWithAt(text, Fence, Len(text) - Len(Fence))
    /\ cleaned = <<"{", "}">>

====
